---------------------------- MODULE Spec2Model ----------------------------
(***************************************************************************)
(* Model of the sifive-core crate: SiFive specific machine-mode            *)
(* instructions (src/src/asm.rs), CSR accessors (src/src/register.rs) and  *)
(* the feature mask (src/src/feature.rs).                                  *)
(*                                                                         *)
(* Machine words are wider than the integers of the model checker, so a    *)
(* word is represented by the set of its bit positions that hold a one:    *)
(* the usize value 2 is {1}, 3 is {0, 1}, 2^63 + 2 is {1, 63}.  Bitwise    *)
(* or / and are union / intersection; addition is a ripple-carry adder.    *)
(***************************************************************************)
EXTENDS Integers, FiniteSets

VARIABLES
    csr,        \* CSR file of the hart: CSR address -> word
    hart,       \* "running" or "ceased"
    ctl,        \* where control went after the last operation
    lastOp,     \* name of the last operation executed
    lastArg,    \* operand word handed to the last operation
    prevCsr,    \* CSR file right before the last operation
    retBits,    \* word returned by the last operation
    retBool,    \* boolean returned by the last operation
    retNmi,     \* Option<Nmi> returned by the last operation
    insn,       \* instruction word emitted by the last .insn directive
    rs1,        \* register the compiler chose for the last in(reg) operand
    mask,       \* a feature::Mask value held by the caller (its bits field)
    rtA,        \* mask before the last union
    rtB,        \* operand of the last union
    rtStage,    \* "none", "set" (after union), "cleared" (after removing rtB)
    maskOp      \* name of the last operation on mask

vars == <<csr, hart, ctl, lastOp, lastArg, prevCsr, retBits, retBool,
          retNmi, insn, rs1, mask, rtA, rtB, rtStage, maskOp>>

hartVars == <<csr, hart, ctl, lastOp, lastArg, prevCsr, retBits, retBool,
              retNmi, insn, rs1>>

maskVars == <<mask, rtA, rtB, rtStage, maskOp>>

---------------------------------------------------------------------------
(* Bounds of the model *)

MaxBpmBit == 1      \* bits 0..MaxBpmBit of the bpm CSR vary
MaxDataBit == 0     \* bits 0..MaxDataBit and bit 63 of scratch data vary
MaxCauseBit == 1    \* bits 0..MaxCauseBit and bit 63 of mncause vary

---------------------------------------------------------------------------
(* Program constants *)

XLEN == 64          \* width of usize / of a CSR
ILEN == 32          \* width of an instruction word

MBPM == 1984        \* 0x7C0
MFEATURE == 1985    \* 0x7C1
MNSCRATCH == 849    \* 0x351, address used by mnscratch::read / write
MNEPC == 849        \* 0x351, address used by mnepc::read
MNCAUSE == 850      \* 0x352

CsrAddrs == {MBPM, MFEATURE, MNSCRATCH, MNEPC, MNCAUSE}

---------------------------------------------------------------------------
(* Words as sets of bit positions *)

\* the word whose value is the natural number n, bit i of n landing at i + at
RECURSIVE BitsFrom(_, _)
BitsFrom(n, at) ==
    IF n = 0 THEN {}
    ELSE (IF n % 2 = 1 THEN {at} ELSE {}) \cup BitsFrom(n \div 2, at + 1)

ToBits(n) == BitsFrom(n, 0)

\* S << k in a word of w bits
Shl(S, k, w) == {b + k : b \in S} \cap (0..(w - 1))

\* the value of bits lo..hi of S, as a natural number
RECURSIVE FieldFrom(_, _, _)
FieldFrom(S, lo, hi) ==
    IF hi < lo THEN 0
    ELSE 2 * FieldFrom(S, lo + 1, hi) + (IF lo \in S THEN 1 ELSE 0)

\* A + B modulo 2^w
RECURSIVE AddFrom(_, _, _, _, _)
AddFrom(A, B, i, carry, w) ==
    IF i >= w THEN {}
    ELSE LET s == (IF i \in A THEN 1 ELSE 0) + (IF i \in B THEN 1 ELSE 0) + carry
         IN  (IF s % 2 = 1 THEN {i} ELSE {}) \cup AddFrom(A, B, i + 1, s \div 2, w)

AddBits(A, B, w) == AddFrom(A, B, 0, 0, w)

\* the 32-bit word written 0xHHHHLLLL
Hex32(hi16, lo16) == Shl(ToBits(hi16), 16, ILEN) \cup ToBits(lo16)

---------------------------------------------------------------------------
(* feature.rs: Mask *)

DCACHE_CLOCK_GATING == Shl(ToBits(1), 0, XLEN)
ICACHE_CLOCK_GATING == Shl(ToBits(1), 1, XLEN)
PIPELINE_CLOCK_GATING == Shl(ToBits(1), 2, XLEN)
SPECULATIVE_ICACHE_REFILL == Shl(ToBits(1), 3, XLEN)
CORRUPT_SIGNAL_GRANTDATA == Shl(ToBits(1), 9, XLEN)
SHORT_FORWARD_BRANCH_OPTIMIZE == Shl(ToBits(1), 16, XLEN)
ICACHE_NEXT_LINE_PREFETCH == Shl(ToBits(1), 17, XLEN)

NamedFlags == {DCACHE_CLOCK_GATING, ICACHE_CLOCK_GATING, PIPELINE_CLOCK_GATING,
               SPECULATIVE_ICACHE_REFILL, CORRUPT_SIGNAL_GRANTDATA,
               SHORT_FORWARD_BRANCH_OPTIMIZE, ICACHE_NEXT_LINE_PREFETCH}

\* Mask::empty() and Mask::all()
MaskEmpty == {}
MaskAll == UNION NamedFlags

\* the generated set operations of the Mask bit-set
MaskUnionMutant(a, b) == a \cap b
MaskUnion(a, b) == a \cup b

MaskIntersection(a, b) == a \cap b

MaskDifference(a, b) == a \cap ((0..(XLEN - 1)) \ b)

\* !mask: the complement, truncated to the defined flags
MaskNotMutant(a) == (0..(XLEN - 1)) \ a
MaskNot(a) == ((0..(XLEN - 1)) \ a) \cap MaskAll

\* Mask::bits(): the raw usize
MaskBits(m) == m

\* every mask that is a union of named flags
DerivedMasks == SUBSET MaskAll

---------------------------------------------------------------------------
(* CSR instructions as they act on the CSR file *)

\* csrr rd, addr
CsrRead(c, addr) == c[addr]

\* csrw addr, rs
CsrWrite(c, addr, v) == [c EXCEPT ![addr] = v]

\* csrrs / csrrsi: set the bits of the operand
CsrSetBits(c, addr, v) == [c EXCEPT ![addr] = c[addr] \cup v]

\* csrrc / csrrci: clear the bits of the operand
CsrClearBitsMutant(c, addr, v) == [c EXCEPT ![addr] = v]
CsrClearBits(c, addr, v) == [c EXCEPT ![addr] = c[addr] \ v]

---------------------------------------------------------------------------
(* register.rs: decoding *)

\* Mbpm::bdp: bit 0 of the value read
bdp(bits) == 0 \in bits

\* the immediate operand of clear_bdp / set_bdp
BdpImm == ToBits(0)

\* mncause::is_supported: ans != 0
IsSupportedValue(ans) == ans # ToBits(0)

\* mncause::exception_code: the match on the raw value
ExceptionCodeMutant(ans) ==
    LET low == ans \ {XLEN - 1}
    IN  IF low = ToBits(2) THEN "RnmiInput"
        ELSE IF low = ToBits(3) THEN "BusError"
        ELSE "None"
ExceptionCodeValue(ans) ==
    IF ans = ToBits(2) THEN "RnmiInput"
    ELSE IF ans = ToBits(3) THEN "BusError"
    ELSE "None"

---------------------------------------------------------------------------
(* asm.rs: instruction words *)

\* .insn i opcode, funct3, rd, rs1, simm12
InsnIMutant(opcode, funct3, rd, r, simm12) ==
    Shl(ToBits(simm12 % 4096), 20, ILEN) \cup Shl(ToBits(r), 14, ILEN)
        \cup Shl(ToBits(funct3), 12, ILEN) \cup Shl(ToBits(rd), 7, ILEN)
        \cup ToBits(opcode)
InsnI(opcode, funct3, rd, r, simm12) ==
    Shl(ToBits(simm12 % 4096), 20, ILEN) \cup Shl(ToBits(r), 15, ILEN)
        \cup Shl(ToBits(funct3), 12, ILEN) \cup Shl(ToBits(rd), 7, ILEN)
        \cup ToBits(opcode)

\* registers an in(reg) operand can be given: any but x0
RegClass == 1..31

\* the words the comments of asm.rs document
CEASE_WORD == Hex32(12368, 115)             \* 0x30500073
CFLUSH_D_L1_WORD == Hex32(64512, 115)       \* 0xFC000073
CDISCARD_D_L1_WORD == Hex32(64544, 115)     \* 0xFC200073
MNRET_WORD == Hex32(28704, 115)             \* 0x70200073

---------------------------------------------------------------------------
(* Inputs *)

BpmValues == SUBSET (0..MaxBpmBit)
DataValues == SUBSET ((0..MaxDataBit) \cup {XLEN - 1})
CauseValues == SUBSET ((0..MaxCauseBit) \cup {XLEN - 1})

\* masks a boot sequence hands to enable
BootMasks == {MaskUnion(MaskUnion(DCACHE_CLOCK_GATING, PIPELINE_CLOCK_GATING),
                        CORRUPT_SIGNAL_GRANTDATA),
              ICACHE_CLOCK_GATING,
              MaskAll}

\* value of the feature disable CSR on reset: all implemented bits are one
FeatureResetValue == MaskAll

---------------------------------------------------------------------------
(* Operations of the hart *)

\* what every operation records
Done(op, arg, c, rb, rbool, rnmi, word, r, where) ==
    /\ lastOp' = op
    /\ lastArg' = arg
    /\ prevCsr' = csr
    /\ csr' = c
    /\ retBits' = rb
    /\ retBool' = rbool
    /\ retNmi' = rnmi
    /\ insn' = word
    /\ rs1' = r
    /\ ctl' = where
    /\ UNCHANGED maskVars

mbpm_read ==
    /\ hart = "running"
    /\ Done("mbpm_read", {}, csr, CsrRead(csr, MBPM), bdp(CsrRead(csr, MBPM)),
            "None", {}, 0, "caller")
    /\ UNCHANGED hart

clear_bdp ==
    /\ hart = "running"
    /\ Done("clear_bdp", BdpImm, CsrClearBits(csr, MBPM, BdpImm), {}, FALSE,
            "None", {}, 0, "caller")
    /\ UNCHANGED hart

set_bdp ==
    /\ hart = "running"
    /\ Done("set_bdp", BdpImm, CsrSetBits(csr, MBPM, BdpImm), {}, FALSE,
            "None", {}, 0, "caller")
    /\ UNCHANGED hart

clear_features(flags) ==
    /\ hart = "running"
    /\ Done("clear_features", MaskBits(flags),
            CsrClearBits(csr, MFEATURE, MaskBits(flags)), {}, FALSE,
            "None", {}, 0, "caller")
    /\ UNCHANGED hart

enable(flags) ==
    /\ hart = "running"
    /\ Done("enable", MaskBits(flags),
            CsrClearBits(csr, MFEATURE, MaskBits(flags)), {}, FALSE,
            "None", {}, 0, "caller")
    /\ UNCHANGED hart

mnscratch_read ==
    /\ hart = "running"
    /\ Done("mnscratch_read", {}, csr, CsrRead(csr, MNSCRATCH), FALSE,
            "None", {}, 0, "caller")
    /\ UNCHANGED hart

mnscratch_write(data) ==
    /\ hart = "running"
    /\ Done("mnscratch_write", data, CsrWrite(csr, MNSCRATCH, data), {}, FALSE,
            "None", {}, 0, "caller")
    /\ UNCHANGED hart

mnepc_read ==
    /\ hart = "running"
    /\ Done("mnepc_read", {}, csr, CsrRead(csr, MNEPC), FALSE,
            "None", {}, 0, "caller")
    /\ UNCHANGED hart

is_supported ==
    /\ hart = "running"
    /\ Done("is_supported", {}, csr, {}, IsSupportedValue(CsrRead(csr, MNCAUSE)),
            "None", {}, 0, "caller")
    /\ UNCHANGED hart

exception_code ==
    /\ hart = "running"
    /\ Done("exception_code", {}, csr, {}, FALSE,
            ExceptionCodeValue(CsrRead(csr, MNCAUSE)), {}, 0, "caller")
    /\ UNCHANGED hart

cease_returns ==
    /\ hart = "running"
    /\ Done("cease", {}, csr, {}, FALSE, "None",
            InsnI(115, 0, 0, 0, 773), 0, "caller")
    /\ UNCHANGED hart
cease ==
    /\ hart = "running"
    /\ Done("cease", {}, csr, {}, FALSE, "None",
            InsnI(115, 0, 0, 0, 773), 0, "halted")
    /\ hart' = "ceased"

cflush_d_l1_all ==
    /\ hart = "running"
    /\ Done("cflush_d_l1_all", {}, csr, {}, FALSE, "None",
            InsnI(115, 0, 0, 0, -64), 0, "caller")
    /\ UNCHANGED hart

cflush_d_l1_va(r) ==
    /\ hart = "running"
    /\ Done("cflush_d_l1_va", {}, csr, {}, FALSE, "None",
            InsnI(115, 0, 0, r, -64), r, "caller")
    /\ UNCHANGED hart

cdiscard_d_l1_all ==
    /\ hart = "running"
    /\ Done("cdiscard_d_l1_all", {}, csr, {}, FALSE, "None",
            InsnI(115, 0, 0, 0, -62), 0, "caller")
    /\ UNCHANGED hart

cdiscard_d_l1_va(r) ==
    /\ hart = "running"
    /\ Done("cdiscard_d_l1_va", {}, csr, {}, FALSE, "None",
            InsnI(115, 0, 0, r, -62), r, "caller")
    /\ UNCHANGED hart

\* control goes to the interrupted context, not back to the caller
mnret ==
    /\ hart = "running"
    /\ Done("mnret", {}, csr, {}, FALSE, "None",
            InsnI(115, 0, 0, 0, 1794), 0, "interrupted")
    /\ UNCHANGED hart

\* external reset of a ceased hart
Reset ==
    /\ hart = "ceased"
    /\ hart' = "running"
    /\ Done("reset", {}, [csr EXCEPT ![MFEATURE] = FeatureResetValue], {}, FALSE,
            "None", {}, 0, "reset")

---------------------------------------------------------------------------
(* Operations on a Mask held by the caller *)

mask_union(b) ==
    /\ mask' = MaskUnion(mask, b)
    /\ rtA' = mask
    /\ rtB' = b
    /\ rtStage' = "set"
    /\ maskOp' = "union"
    /\ UNCHANGED hartVars

\* clear again the bits that the last union set
mask_remove ==
    /\ rtStage = "set"
    /\ mask' = MaskDifference(mask, rtB)
    /\ rtStage' = "cleared"
    /\ maskOp' = "remove"
    /\ UNCHANGED <<rtA, rtB>>
    /\ UNCHANGED hartVars

mask_intersection(b) ==
    /\ mask' = MaskIntersection(mask, b)
    /\ rtA' = {}
    /\ rtB' = {}
    /\ rtStage' = "none"
    /\ maskOp' = "intersection"
    /\ UNCHANGED hartVars

mask_not ==
    /\ mask' = MaskNot(mask)
    /\ rtA' = {}
    /\ rtB' = {}
    /\ rtStage' = "none"
    /\ maskOp' = "not"
    /\ UNCHANGED hartVars

---------------------------------------------------------------------------
(* Specifications *)

InitHart(b, d, c, f) ==
    /\ csr = [a \in CsrAddrs |->
                 IF a = MBPM THEN b
                 ELSE IF a = MFEATURE THEN f
                 ELSE IF a = MNCAUSE THEN c
                 ELSE d]
    /\ prevCsr = csr
    /\ hart = "running"
    /\ ctl = "reset"
    /\ lastOp = "reset"
    /\ lastArg = {}
    /\ retBits = {}
    /\ retBool = FALSE
    /\ retNmi = "None"
    /\ insn = {}
    /\ rs1 = 0

InitMask ==
    /\ mask = MaskEmpty
    /\ rtA = {}
    /\ rtB = {}
    /\ rtStage = "none"
    /\ maskOp = "new"

\* the hart after reset, running any operation of the crate
Init ==
    /\ InitHart({}, {}, {}, FeatureResetValue)
    /\ InitMask

Next ==
    \/ mbpm_read
    \/ clear_bdp
    \/ set_bdp
    \/ \E m \in BootMasks : clear_features(m)
    \/ \E m \in BootMasks : enable(m)
    \/ mnscratch_read
    \/ \E d \in DataValues : mnscratch_write(d)
    \/ mnepc_read
    \/ is_supported
    \/ exception_code
    \/ cease
    \/ cflush_d_l1_all
    \/ \E r \in RegClass : cflush_d_l1_va(r)
    \/ cdiscard_d_l1_all
    \/ \E r \in RegClass : cdiscard_d_l1_va(r)
    \/ mnret
    \/ Reset

Spec == Init /\ [][Next]_vars

\* the bpm, NMI scratch and NMI cause CSRs holding any value
InitCsr ==
    /\ \E b \in BpmValues, d \in DataValues, c \in CauseValues :
          InitHart(b, d, c, FeatureResetValue)
    /\ InitMask

NextCsr ==
    \/ mbpm_read
    \/ clear_bdp
    \/ set_bdp
    \/ mnscratch_read
    \/ \E d \in DataValues : mnscratch_write(d)
    \/ mnepc_read
    \/ is_supported
    \/ exception_code

SpecCsr == InitCsr /\ [][NextCsr]_vars

\* the feature disable CSR in any state, any mask cleared
InitFeature ==
    /\ \E f \in DerivedMasks : InitHart({}, {}, {}, f)
    /\ InitMask

NextFeature ==
    \/ \E m \in DerivedMasks : clear_features(m)
    \/ \E m \in DerivedMasks : enable(m)

SpecFeature == InitFeature /\ [][NextFeature]_vars

\* the mask algebra, starting from a named flag or the empty mask
InitMaskSpec ==
    /\ InitHart({}, {}, {}, FeatureResetValue)
    /\ mask \in NamedFlags \cup {MaskEmpty}
    /\ rtA = {}
    /\ rtB = {}
    /\ rtStage = "none"
    /\ maskOp = "new"

NextMask ==
    \/ \E b \in DerivedMasks : mask_union(b)
    \/ mask_remove
    \/ \E b \in DerivedMasks : mask_intersection(b)
    \/ mask_not

SpecMask == InitMaskSpec /\ [][NextMask]_vars

---------------------------------------------------------------------------
(* Properties *)

Words == 0..(XLEN - 1)

\* C1: after set_bdp a read of the bpm CSR has bdp() true, and after
\* clear_bdp it has bdp() false, whatever the CSR held before.
C1_BdpRoundTrip ==
    /\ lastOp = "set_bdp" => bdp(CsrRead(csr, MBPM))
    /\ lastOp = "clear_bdp" => ~bdp(CsrRead(csr, MBPM))

\* C2: enable / clear_features of mask M leaves the feature disable CSR at
\* R & !bits(M): the bits of M are cleared, the bits outside M and the other
\* CSRs keep their value, no bit goes from 0 to 1, and the mask of the flags
\* at bits 0, 2 and 9 clears with an operand of exactly bits 0, 2 and 9.
C2_ClearFeaturesFrame ==
    lastOp \in {"enable", "clear_features"} =>
        /\ \A b \in Words :
              b \in csr[MFEATURE] <=> (b \in prevCsr[MFEATURE] /\ b \notin lastArg)
        /\ csr[MFEATURE] \subseteq prevCsr[MFEATURE]
        /\ \A a \in CsrAddrs \ {MFEATURE} : csr[a] = prevCsr[a]
        /\ lastArg = MaskUnion(MaskUnion(DCACHE_CLOCK_GATING, PIPELINE_CLOCK_GATING),
                               CORRUPT_SIGNAL_GRANTDATA)
              => /\ lastArg = {0, 2, 9}
                 /\ csr[MFEATURE] = prevCsr[MFEATURE] \ {0, 2, 9}

C2_Witness ==
    /\ lastOp = "enable"
    /\ lastArg = {0, 2, 9}
    /\ prevCsr[MFEATURE] = {0, 1, 2, 9, 17}
    /\ csr[MFEATURE] = {1, 17}

C4_LowBitsDecode ==
    (lastOp = "exception_code" /\ (XLEN - 1) \in csr[MNCAUSE]) =>
        /\ csr[MNCAUSE] \ {XLEN - 1} = {1} => retNmi = "RnmiInput"
        /\ csr[MNCAUSE] \ {XLEN - 1} = {0, 1} => retNmi = "BusError"

\* C5: exception_code returns None exactly when is_supported is false on
\* the same register value.
C5_NoneIffUnsupported ==
    lastOp = "exception_code" =>
        (retNmi = "None" <=> ~IsSupportedValue(CsrRead(csr, MNCAUSE)))

\* C6: every instruction-emitting operation emits its documented word; the
\* by-address forms emit the base word plus (r << 15), with bits 15-19 equal
\* to r and all other bits those of the base word.
C6_Encodings ==
    /\ lastOp = "cease" => insn = CEASE_WORD
    /\ lastOp = "cflush_d_l1_all" => insn = CFLUSH_D_L1_WORD
    /\ lastOp = "cdiscard_d_l1_all" => insn = CDISCARD_D_L1_WORD
    /\ lastOp = "mnret" => insn = MNRET_WORD
    /\ lastOp = "cflush_d_l1_va" =>
          /\ rs1 \in 1..31
          /\ insn = AddBits(CFLUSH_D_L1_WORD, Shl(ToBits(rs1), 15, ILEN), ILEN)
          /\ FieldFrom(insn, 15, 19) = rs1
          /\ insn \ (15..19) = CFLUSH_D_L1_WORD
          /\ insn # CFLUSH_D_L1_WORD
    /\ lastOp = "cdiscard_d_l1_va" =>
          /\ rs1 \in 1..31
          /\ insn = AddBits(CDISCARD_D_L1_WORD, Shl(ToBits(rs1), 15, ILEN), ILEN)
          /\ FieldFrom(insn, 15, 19) = rs1
          /\ insn \ (15..19) = CDISCARD_D_L1_WORD
          /\ insn # CDISCARD_D_L1_WORD

C6_Witness ==
    /\ lastOp = "cdiscard_d_l1_va"
    /\ rs1 = 10
    /\ insn = {0, 1, 4, 5, 6, 16, 18, 21, 26, 27, 28, 29, 30, 31}

\* C7: cease and mnret never give control back to their caller, and a hart
\* that has ceased does nothing more until it is reset.
C7_Terminal ==
    [][/\ lastOp' \in {"cease", "mnret"} => ctl' # "caller"
       /\ lastOp' = "cease" => hart' = "ceased"
       /\ hart = "ceased" => (lastOp' = "reset" /\ hart' = "running")]_vars

C7_Witness ==
    /\ hart = "ceased"
    /\ lastOp = "cease"
    /\ ctl = "halted"

\* C8 as stated: setting the bits of B in A and clearing the bits of B again
\* gives back A.
C8_RoundTripOriginal ==
    rtStage = "cleared" => mask = rtA

\* C8 amended: setting the bits of B in A and clearing the bits of B again
\* gives A minus B, which is A exactly when A and B share no flag.
C8_RoundTripAmended ==
    rtStage = "cleared" =>
        /\ mask = rtA \ rtB
        /\ mask = rtA <=> rtA \cap rtB = {}

C8_Witness ==
    /\ rtStage = "cleared"
    /\ rtA = {0, 9}
    /\ rtB = {9, 16}
    /\ mask = {0}

\* C9: a mask built from the named flags and the empty mask by union,
\* intersection and negation has bits only at 0, 1, 2, 3, 9, 16 and 17.
C9_OnlyDefinedBits ==
    MaskBits(mask) \subseteq {0, 1, 2, 3, 9, 16, 17}

C9_Witness ==
    /\ maskOp = "not"
    /\ mask = {1, 2, 3, 16, 17}

\* C10: mnscratch::write(d) makes mnscratch::read return d and leaves the
\* value mnepc::read returns as it was.
C10_ScratchWriteFrame ==
    lastOp = "mnscratch_write" =>
        /\ CsrRead(csr, MNSCRATCH) = lastArg
        /\ CsrRead(csr, MNEPC) = CsrRead(prevCsr, MNEPC)

=============================================================================
